---------------------------- MODULE Spec2Model ----------------------------
(***************************************************************************)
(* Model of the PDF-tools front end (App.jsx): the App component           *)
(* (formOpen, forceTitle, handleNavigate), the navigation bar, the card    *)
(* grid GenerateCardGrid (selected, the useEffect that follows             *)
(* forcedFormTitle, openCard, back) and the four forms with their          *)
(* requests to the HTTP API.                                               *)
(*                                                                         *)
(* JavaScript runs the handlers one at a time.  A click handler runs to    *)
(* its end, React renders, and the effects whose dependencies changed run  *)
(* before the next event is handled: pc = "effect" is the moment between   *)
(* the render after handleNavigate and the run of the effect, in which no  *)
(* other handler can run.                                                  *)
(***************************************************************************)
EXTENDS Naturals, Sequences, FiniteSets, TLC

\* ------------------------------------------------------------------
\* Bounds
\* ------------------------------------------------------------------
\* Requests that may be pending at the API at the same time (those of the
\* mounted form and those of forms unmounted since).
MaxPending == 2

\* ------------------------------------------------------------------
\* Values
\* ------------------------------------------------------------------
\* JavaScript null, for a string-valued state (forceTitle, a detail).
NULL == "null"
\* JavaScript null, for the card-valued state `selected`.
NoCard == [id |-> 0, title |-> NULL]
\* No file chosen in a file input (null, or files[0] undefined).
NoFile == "nofile"

\* The truthiness of a string-or-null value: null and "" are falsy.
Truthy(v) == v # NULL /\ v # ""

\* a ?? b on string-or-null values: only null gives way to b.
OrElseNullish(a, b) == IF a # NULL THEN a ELSE b

\* a || b on string-or-null values.
OrElse(a, b) == IF Truthy(a) THEN a ELSE b

\* The keys the navigation bar passes to onNavigate.
NavKeys == {"HOME", "UPLOAD", "DOWNLOAD", "MERGE", "SPLIT"}

\* Keys no link of the navigation bar passes: a string that is no card's
\* title, and the empty string.
UnknownKeys == {"OTHER", ""}

\* CARD DEFINITIONS (menu)
menuCards ==
  << [id |-> 1, title |-> "DOWNLOAD"],
     [id |-> 2, title |-> "UPLOAD"],
     [id |-> 3, title |-> "MERGE"],
     [id |-> 4, title |-> "SPLIT"] >>

\* The titles that have a form component.
formByTitle == {"UPLOAD", "DOWNLOAD", "MERGE", "SPLIT"}

\* menuCards.find((c) => c.title === t): the first card with that title,
\* undefined (NoCard, falsy alike) when there is none.
FindCardDropCheck(t) ==
  IF \E i \in 1..Len(menuCards) : menuCards[i].title = t
    THEN menuCards[CHOOSE i \in 1..Len(menuCards) :
                     /\ menuCards[i].title = t
                     /\ \A j \in 1..(i-1) : menuCards[j].title # t]
    ELSE menuCards[1]

FindCard(t) ==
  IF \E i \in 1..Len(menuCards) : menuCards[i].title = t
    THEN menuCards[CHOOSE i \in 1..Len(menuCards) :
                     /\ menuCards[i].title = t
                     /\ \A j \in 1..(i-1) : menuCards[j].title # t]
    ELSE NoCard

\* The state of a form component when it mounts (its useState initial values).
\* file/file1/file2: the chosen files; range: the Split text field; uuid: the
\* result of Upload, Merge and Split, and the text field of Download.
InitForm ==
  [file |-> NoFile, file1 |-> NoFile, file2 |-> NoFile, range |-> "",
   uuid |-> "", err |-> "", loading |-> FALSE]

VARIABLES
  formOpen,    \* App: const [formOpen, setFormOpen] = useState(false)
  forceTitle,  \* App: const [forceTitle, setForceTitle] = useState(null)
  selected,    \* GenerateCardGrid: const [selected, setSelected] = useState(null)
  pc,          \* "idle", or "effect": the effect on forcedFormTitle is due
  form,        \* the state of the mounted form component (InitForm when none)
  inflight,    \* requests of the mounted form component awaiting their response
  stale,       \* requests of unmounted form components awaiting their response
  staleDl,     \* those of them that an unmounted DownloadForm issued
  lateCalls,   \* what the last step called from the handler of an unmounted form
  emits,       \* the onFormOpenChange calls of the grid since the last click
  last,        \* the last navigation event and the state it started from
  prev,        \* the navigation event before it, with its emissions
  lastSel,     \* the key of the last handleNavigate call, "NONE" before any
  navOnly      \* no card click and no back click has happened yet

vars == << formOpen, forceTitle, selected, pc, form, inflight, stale, staleDl,
           lateCalls, emits, last, prev, lastSel, navOnly >>

navState == [selected |-> selected, formOpen |-> formOpen, forceTitle |-> forceTitle]

NoEvent == [op |-> "none", arg |-> NULL,
            pre |-> [selected |-> NoCard, formOpen |-> FALSE, forceTitle |-> NULL],
            emits |-> << >>]

Init ==
  /\ formOpen = FALSE
  /\ forceTitle = NULL
  /\ selected = NoCard
  /\ pc = "idle"
  /\ form = InitForm
  /\ inflight = 0
  /\ stale = 0
  /\ staleDl = 0
  /\ lateCalls = << >>
  /\ emits = << >>
  /\ last = NoEvent
  /\ prev = NoEvent
  /\ lastSel = "NONE"
  /\ navOnly = TRUE


\* ------------------------------------------------------------------
\* Rendering of GenerateCardGrid
\* ------------------------------------------------------------------
\* React keeps a component's state while the same component is rendered at the
\* same place: the form is kept while selected keeps its title, and a form that
\* appears starts from its initial state.
SameComponent(old, new) == old # NoCard /\ new # NoCard /\ old.title = new.title

\* The form state, and the requests of the mounted and of the unmounted forms,
\* after a render that takes selected to `new`.
Render(new) ==
  IF SameComponent(selected, new)
    THEN /\ UNCHANGED << form, inflight, stale, staleDl >>
    ELSE /\ form' = InitForm
         /\ inflight' = 0
         /\ stale' = stale + inflight
         /\ staleDl' = IF selected.title = "DOWNLOAD"
                         THEN staleDl + inflight ELSE staleDl

\* ------------------------------------------------------------------
\* History of the navigation events (observation only)
\* ------------------------------------------------------------------
Record(op, arg) ==
  /\ prev' = [last EXCEPT !.emits = emits]
  /\ last' = [op |-> op, arg |-> arg, pre |-> navState, emits |-> << >>]

\* ------------------------------------------------------------------
\* App
\* ------------------------------------------------------------------
\* The dependency list [forcedFormTitle] of the effect: it runs after a render
\* in which the value differs from that of the render before.
DepsChangedAlways(old, new) == TRUE

DepsChanged(old, new) == old # new

\* handleNavigate without the HOME case.
HandleNavigateNoHome(key) ==
  /\ pc = "idle"
  /\ forceTitle' = key
  /\ UNCHANGED formOpen
  /\ pc' = IF DepsChanged(forceTitle, forceTitle') THEN "effect" ELSE "idle"
  /\ emits' = << >>
  /\ Record("select", key)
  /\ lastSel' = key
  /\ lateCalls' = << >>
  /\ UNCHANGED << selected, form, inflight, stale, staleDl, navOnly >>

\* handleNavigate(key), the onNavigate of the navigation bar, and the render
\* that follows it.
HandleNavigate(key) ==
  /\ pc = "idle"
  /\ IF key = "HOME"
       THEN /\ forceTitle' = NULL
            /\ formOpen' = FALSE
       ELSE /\ forceTitle' = key
            /\ UNCHANGED formOpen
  /\ pc' = IF DepsChanged(forceTitle, forceTitle') THEN "effect" ELSE "idle"
  /\ emits' = << >>
  /\ Record("select", key)
  /\ lastSel' = key
  /\ lateCalls' = << >>
  /\ UNCHANGED << selected, form, inflight, stale, staleDl, navOnly >>

\* ------------------------------------------------------------------
\* GenerateCardGrid
\* ------------------------------------------------------------------
\* The effect, closing the open form before it opens the requested one.
SyncEffectViaMenu ==
  /\ pc = "effect"
  /\ pc' = "idle"
  /\ IF Truthy(forceTitle)
       THEN LET card == FindCard(forceTitle) IN
            IF card # NoCard
              THEN /\ selected' = card
                   /\ formOpen' = TRUE
                   /\ emits' = IF selected # NoCard
                                 THEN emits \o << "closed", "open" >>
                                 ELSE Append(emits, "open")
                   /\ Render(card)
              ELSE UNCHANGED << selected, formOpen, emits, form, inflight, stale, staleDl >>
       ELSE IF selected # NoCard
              THEN /\ selected' = NoCard
                   /\ formOpen' = FALSE
                   /\ emits' = Append(emits, "closed")
                   /\ Render(NoCard)
              ELSE UNCHANGED << selected, formOpen, emits, form, inflight, stale, staleDl >>
  /\ lateCalls' = << >>
  /\ UNCHANGED << forceTitle, last, prev, lastSel, navOnly >>

\* The effect selecting a card made from the key, without the lookup in
\* menuCards and the test of its result.
SyncEffectTrustsKey ==
  /\ pc = "effect"
  /\ pc' = "idle"
  /\ IF Truthy(forceTitle)
       THEN LET card == [id |-> 0, title |-> forceTitle] IN
            /\ selected' = card
            /\ formOpen' = TRUE
            /\ emits' = Append(emits, "open")
            /\ Render(card)
       ELSE IF selected # NoCard
              THEN /\ selected' = NoCard
                   /\ formOpen' = FALSE
                   /\ emits' = Append(emits, "closed")
                   /\ Render(NoCard)
              ELSE UNCHANGED << selected, formOpen, emits, form, inflight, stale, staleDl >>
  /\ lateCalls' = << >>
  /\ UNCHANGED << forceTitle, last, prev, lastSel, navOnly >>

\* useEffect(() => {...}, [forcedFormTitle]): sync with external nav.
SyncEffect ==
  /\ pc = "effect"
  /\ pc' = "idle"
  /\ IF Truthy(forceTitle)
       THEN LET card == FindCard(forceTitle) IN
            IF card # NoCard
              THEN /\ selected' = card
                   /\ formOpen' = TRUE
                   /\ emits' = Append(emits, "open")
                   /\ Render(card)
              ELSE UNCHANGED << selected, formOpen, emits, form, inflight, stale, staleDl >>
       ELSE IF selected # NoCard
              THEN /\ selected' = NoCard
                   /\ formOpen' = FALSE
                   /\ emits' = Append(emits, "closed")
                   /\ Render(NoCard)
              ELSE UNCHANGED << selected, formOpen, emits, form, inflight, stale, staleDl >>
  /\ lateCalls' = << >>
  /\ UNCHANGED << forceTitle, last, prev, lastSel, navOnly >>

\* openCard(card): the click on a card of the GridMenu, shown while nothing is
\* selected.
openCard(card) ==
  /\ pc = "idle"
  /\ selected = NoCard
  /\ selected' = card
  /\ formOpen' = TRUE
  /\ emits' = << "open" >>
  /\ Render(card)
  /\ Record("openCard", card.title)
  /\ navOnly' = FALSE
  /\ lateCalls' = << >>
  /\ UNCHANGED << forceTitle, pc, lastSel >>

\* back without the call of onFormOpenChange.
backNoEmit ==
  /\ pc = "idle"
  /\ selected # NoCard
  /\ selected' = NoCard
  /\ emits' = << >>
  /\ Render(NoCard)
  /\ Record("back", NULL)
  /\ navOnly' = FALSE
  /\ lateCalls' = << >>
  /\ UNCHANGED << formOpen, forceTitle, pc, lastSel >>

\* back that also clears the navigation signal.
backClearsSignal ==
  /\ pc = "idle"
  /\ selected # NoCard
  /\ selected' = NoCard
  /\ formOpen' = FALSE
  /\ forceTitle' = NULL
  /\ emits' = << "closed" >>
  /\ Render(NoCard)
  /\ Record("back", NULL)
  /\ navOnly' = FALSE
  /\ lateCalls' = << >>
  /\ UNCHANGED << pc, lastSel >>

\* back(): the click on the BackBtn of the open form.
back ==
  /\ pc = "idle"
  /\ selected # NoCard
  /\ selected' = NoCard
  /\ formOpen' = FALSE
  /\ emits' = << "closed" >>
  /\ Render(NoCard)
  /\ Record("back", NULL)
  /\ navOnly' = FALSE
  /\ lateCalls' = << >>
  /\ UNCHANGED << forceTitle, pc, lastSel >>


\* ------------------------------------------------------------------
\* Forms
\* ------------------------------------------------------------------
\* What the user can put into a file input and into a text field.
Files == {NoFile, "a.pdf"}
Ranges == {"", "1-5"}
UuidTexts == {"", "u1"}

\* What the API answers: data.uuid of a success, and response.data.detail of a
\* failure (null when the failure carries none).
ResponseUuids == {"u1", "u2"}
Details == {NULL, "", "Arquivo inválido"}

\* The fallback message of each form's catch.
Fallback(title) ==
  CASE title = "UPLOAD"   -> "Erro no upload"
    [] title = "MERGE"    -> "Erro ao mesclar"
    [] title = "SPLIT"    -> "Erro ao extrair"
    [] title = "DOWNLOAD" -> "UUID não encontrado"

\* The form `title` is the one on screen and no effect is due.
Shown(title) == pc = "idle" /\ selected.title = title

\* disabled={loading} of the submit button: a disabled button submits nothing,
\* by a click or by Enter in a field of its form.
SubmitEnabledAlways == TRUE

SubmitEnabled == ~form.loading

\* The request of a submit, without the setErr("") and setUuid("") before it.
IssueNoClear(cleared) ==
  /\ inflight + stale < MaxPending
  /\ form' = [form EXCEPT !.loading = TRUE]
  /\ inflight' = inflight + 1

\* The request of a submit: setLoading(true) and the call of the API.
Issue(cleared) ==
  /\ inflight + stale < MaxPending
  /\ form' = [cleared EXCEPT !.loading = TRUE]
  /\ inflight' = inflight + 1

\* No event of a mounted form touches the state of App and of the grid, nor the
\* requests of the unmounted forms.
UNav ==
  /\ lateCalls' = << >>
  /\ UNCHANGED << formOpen, forceTitle, selected, pc, stale, staleDl, emits,
                  last, prev, lastSel, navOnly >>

\* onChange of the file input of UploadForm.
UploadSetFile(f) ==
  /\ Shown("UPLOAD")
  /\ form' = [form EXCEPT !.file = f]
  /\ UNCHANGED inflight
  /\ UNav

\* UploadForm.handleSubmit, to its await or its return.
UploadSubmit ==
  /\ Shown("UPLOAD")
  /\ SubmitEnabled
  /\ LET cleared == [form EXCEPT !.err = "", !.uuid = ""] IN
     IF form.file = NoFile
       THEN /\ form' = [cleared EXCEPT !.err = "Selecione um PDF"]
            /\ UNCHANGED inflight
       ELSE Issue(cleared)
  /\ UNav

\* onChange of the two file inputs of MergeForm.
MergeSetFile1(f) ==
  /\ Shown("MERGE")
  /\ form' = [form EXCEPT !.file1 = f]
  /\ UNCHANGED inflight
  /\ UNav

MergeSetFile2(f) ==
  /\ Shown("MERGE")
  /\ form' = [form EXCEPT !.file2 = f]
  /\ UNCHANGED inflight
  /\ UNav

\* MergeForm.submit, to its await or its return.
MergeSubmit ==
  /\ Shown("MERGE")
  /\ SubmitEnabled
  /\ LET cleared == [form EXCEPT !.err = "", !.uuid = ""] IN
     IF form.file1 = NoFile \/ form.file2 = NoFile
       THEN /\ form' = [cleared EXCEPT !.err = "Selecione os dois PDFs"]
            /\ UNCHANGED inflight
       ELSE Issue(cleared)
  /\ UNav

\* onChange of the file input and of the range field of SplitForm.
SplitSetFile(f) ==
  /\ Shown("SPLIT")
  /\ form' = [form EXCEPT !.file = f]
  /\ UNCHANGED inflight
  /\ UNav

SplitSetRange(r) ==
  /\ Shown("SPLIT")
  /\ form' = [form EXCEPT !.range = r]
  /\ UNCHANGED inflight
  /\ UNav

\* SplitForm.submit with setLoading(true) in front of the test of its inputs.
SplitSubmitLoadingFirst ==
  /\ Shown("SPLIT")
  /\ SubmitEnabled
  /\ LET cleared == [form EXCEPT !.err = "", !.uuid = ""] IN
     IF form.file = NoFile \/ ~Truthy(form.range)
       THEN /\ form' = [cleared EXCEPT !.err = "Arquivo e intervalo obrigatórios",
                                       !.loading = TRUE]
            /\ UNCHANGED inflight
       ELSE Issue(cleared)
  /\ UNav

\* SplitForm.submit, to its await or its return.
SplitSubmit ==
  /\ Shown("SPLIT")
  /\ SubmitEnabled
  /\ LET cleared == [form EXCEPT !.err = "", !.uuid = ""] IN
     IF form.file = NoFile \/ ~Truthy(form.range)
       THEN /\ form' = [cleared EXCEPT !.err = "Arquivo e intervalo obrigatórios"]
            /\ UNCHANGED inflight
       ELSE Issue(cleared)
  /\ UNav

\* onChange of the UUID field of DownloadForm.
DownloadSetUuid(u) ==
  /\ Shown("DOWNLOAD")
  /\ form' = [form EXCEPT !.uuid = u]
  /\ UNCHANGED inflight
  /\ UNav

\* DownloadForm.submit, to its await or its return.
DownloadSubmit ==
  /\ Shown("DOWNLOAD")
  /\ SubmitEnabled
  /\ LET cleared == [form EXCEPT !.err = ""] IN
     IF ~Truthy(form.uuid)
       THEN /\ form' = [cleared EXCEPT !.err = "Informe o UUID"]
            /\ UNCHANGED inflight
       ELSE Issue(cleared)
  /\ UNav

\* The API answers a request of the mounted Upload, Merge or Split form with
\* success: setUuid(data.uuid), then the finally.
Resolve(u) ==
  /\ pc = "idle"
  /\ selected.title \in {"UPLOAD", "MERGE", "SPLIT"}
  /\ inflight > 0
  /\ form' = [form EXCEPT !.uuid = u, !.loading = FALSE]
  /\ inflight' = inflight - 1
  /\ UNav

\* The API answers a request of the mounted Download form with the file: the
\* browser saves it as `${uuid}.pdf`, then the finally.
DownloadResolve ==
  /\ Shown("DOWNLOAD")
  /\ inflight > 0
  /\ form' = [form EXCEPT !.loading = FALSE]
  /\ inflight' = inflight - 1
  /\ UNav

\* The catch closing the form (onBack) after it has set the error.
RejectGoesBack(detail) ==
  /\ pc = "idle"
  /\ selected # NoCard
  /\ inflight > 0
  /\ selected' = NoCard
  /\ formOpen' = FALSE
  /\ form' = InitForm
  /\ inflight' = 0
  /\ stale' = stale + (inflight - 1)
  /\ lateCalls' = << >>
  /\ UNCHANGED << forceTitle, pc, staleDl, emits, last, prev, lastSel, navOnly >>

\* The catch without the finally after it.
RejectNoFinally(detail) ==
  /\ pc = "idle"
  /\ selected # NoCard
  /\ inflight > 0
  /\ form' = [form EXCEPT !.err = OrElse(detail, Fallback(selected.title))]
  /\ inflight' = inflight - 1
  /\ UNav

\* A request of the mounted form fails: the catch, then the finally.
Reject(detail) ==
  /\ pc = "idle"
  /\ selected # NoCard
  /\ inflight > 0
  /\ form' = [form EXCEPT !.err = OrElse(detail, Fallback(selected.title)),
                          !.loading = FALSE]
  /\ inflight' = inflight - 1
  /\ UNav

\* How a request ends: with a response of success or with a failure.
Outcomes == {"ok", "fail"}

\* What the rest of a submit handler calls once its await ends.  The handlers
\* test nowhere whether their form is still mounted.
Continuation(isDownload, outcome) ==
  CASE outcome = "fail"               -> << "setErr", "setLoading" >>
    [] outcome = "ok" /\ isDownload   -> << "link.click", "setLoading" >>
    [] outcome = "ok" /\ ~isDownload  -> << "setUuid", "setLoading" >>

\* The continuation writing into the form that is on screen now.
StaleSettleHitsMounted(isDownload, outcome) ==
  /\ pc = "idle"
  /\ IF isDownload THEN staleDl > 0 ELSE stale - staleDl > 0
  /\ stale' = stale - 1
  /\ staleDl' = IF isDownload THEN staleDl - 1 ELSE staleDl
  /\ lateCalls' = Continuation(isDownload, outcome)
  /\ form' = [form EXCEPT !.loading = FALSE]
  /\ UNCHANGED << formOpen, forceTitle, selected, pc, inflight, emits,
                  last, prev, lastSel, navOnly >>

\* A request of a form that is no longer mounted ends: the rest of the handler
\* of that form runs and calls the setters of the unmounted component (and, for
\* a download that succeeded, saves the file).  React drops the state updates
\* of an unmounted component, so no state changes.
StaleSettle(isDownload, outcome) ==
  /\ pc = "idle"
  /\ IF isDownload THEN staleDl > 0 ELSE stale - staleDl > 0
  /\ stale' = stale - 1
  /\ staleDl' = IF isDownload THEN staleDl - 1 ELSE staleDl
  /\ lateCalls' = Continuation(isDownload, outcome)
  /\ UNCHANGED << formOpen, forceTitle, selected, pc, form, inflight, emits,
                  last, prev, lastSel, navOnly >>

\* ------------------------------------------------------------------
\* Specifications
\* ------------------------------------------------------------------
NavEvent ==
  \/ \E key \in NavKeys : HandleNavigate(key)
  \/ SyncEffect
  \/ \E i \in 1..Len(menuCards) : openCard(menuCards[i])
  \/ back

FormEvent ==
  \/ \E f \in Files : UploadSetFile(f)
  \/ UploadSubmit
  \/ \E f \in Files : MergeSetFile1(f)
  \/ \E f \in Files : MergeSetFile2(f)
  \/ MergeSubmit
  \/ \E f \in Files : SplitSetFile(f)
  \/ \E r \in Ranges : SplitSetRange(r)
  \/ SplitSubmit
  \/ \E u \in UuidTexts : DownloadSetUuid(u)
  \/ DownloadSubmit
  \/ \E u \in ResponseUuids : Resolve(u)
  \/ DownloadResolve
  \/ \E d \in Details : Reject(d)
  \/ \E dl \in BOOLEAN, o \in Outcomes : StaleSettle(dl, o)

Next == NavEvent \/ FormEvent

Spec == Init /\ [][Next]_vars

\* The API ends every request, and the browser then runs the rest of the
\* handler that awaits it; React runs an effect that is due.
Settle ==
  \/ \E u \in ResponseUuids : Resolve(u)
  \/ DownloadResolve
  \/ \E d \in Details : Reject(d)

SpecFair == Init /\ [][Next]_vars /\ WF_vars(SyncEffect) /\ WF_vars(Settle)

\* The same program with handleNavigate also called with keys that no link of
\* the navigation bar passes.
NextAnyKey == Next \/ \E key \in UnknownKeys : HandleNavigate(key)

SpecAnyKey == Init /\ [][NextAnyKey]_vars


\* ------------------------------------------------------------------
\* Properties
\* ------------------------------------------------------------------
Settled == pc = "idle"

\* The titles of the cards of the menu.
CardTitles == { menuCards[i].title : i \in 1..Len(menuCards) }

\* What the grid renders is defined: the menu, or a form that formByTitle has.
RenderOk == selected = NoCard \/ selected.title \in formByTitle

\* C1: once an event and the effect it causes have settled, App's formOpen is
\* true exactly when the grid's selected is a card.
C1_FlagAgreesWithSelected ==
  Settled => (formOpen <=> selected # NoCard)

\* C2: a form opened by a click on its card while forceTitle is null is closed
\* by the Home link that follows: selected is null again, and the grid has
\* called onFormOpenChange(false) once.
C2_HomeClosesCardOpenedForm ==
  ( /\ Settled
    /\ last.op = "select" /\ last.arg = "HOME"
    /\ prev.op = "openCard" /\ prev.pre.forceTitle = NULL )
  => (selected = NoCard /\ emits = << "closed" >>)

\* C3: as long as the only navigation events are clicks on links of the
\* navigation bar, once settled the menu is shown exactly when there was no
\* click yet or the last was Home, and otherwise the form of the last key is.
C3_SelectSequenceDecidesForm ==
  (Settled /\ navOnly)
  => IF lastSel \in {"NONE", "HOME"}
       THEN selected = NoCard
       ELSE selected \in { menuCards[i] : i \in 1..Len(menuCards) }
            /\ selected.title = lastSel

C3_Witness ==
  /\ Settled /\ navOnly
  /\ lastSel = "MERGE" /\ selected.title = "MERGE"
  /\ prev.op = "select" /\ prev.arg = "HOME"
  /\ last.pre.selected = NoCard

\* C4: a click on the link of a form while the menu is shown opens that form:
\* once settled, selected is its card and the grid has called
\* onFormOpenChange(true).
C4_SelectOpensFromMenu ==
  ( /\ Settled
    /\ last.op = "select" /\ last.arg \in CardTitles
    /\ last.pre.selected = NoCard )
  => (selected.title = last.arg /\ emits = << "open" >>)

\* C5: the second of two clicks in a row on the same link causes no effect and
\* no call of onFormOpenChange, and leaves forceTitle, selected and formOpen as
\* they were.
C5_SecondSelectDoesNothing ==
  (last.op = "select" /\ prev.op = "select" /\ last.arg = prev.arg)
  => (Settled /\ emits = << >> /\ navState = last.pre)

C5_Witness ==
  /\ last.op = "select" /\ prev.op = "select"
  /\ last.arg = "SPLIT" /\ prev.arg = "SPLIT"
  /\ prev.emits = << "open" >>
  /\ selected.title = "SPLIT" /\ formOpen

\* C6: with the form of key k1 open by a click on its link, a click on the link
\* of another form k2 never shows the menu, neither before nor after the effect
\* has run, never calls onFormOpenChange(false), and once settled shows the form
\* of k2 after exactly one call of onFormOpenChange(true).
C6_Precondition ==
  /\ last.op = "select"
  /\ last.arg \in CardTitles
  /\ last.pre.forceTitle \in CardTitles
  /\ last.pre.forceTitle # last.arg
  /\ last.pre.selected.title = last.pre.forceTitle

C6_SwitchesFormDirectly ==
  C6_Precondition
  => /\ selected # NoCard
     /\ \A i \in 1..Len(emits) : emits[i] # "closed"
     /\ ~Settled => (selected = last.pre.selected /\ emits = << >>)
     /\ Settled => (selected.title = last.arg /\ emits = << "open" >>)

C6_Witness ==
  /\ C6_Precondition /\ Settled
  /\ last.pre.forceTitle = "UPLOAD" /\ last.arg = "MERGE"
  /\ selected.title = "MERGE" /\ formOpen

\* C7: a click on a card followed at once by a click on back leaves selected
\* and formOpen as they were before the click on the card, after one call of
\* onFormOpenChange(true) and then one of onFormOpenChange(false).
C7_OpenThenBackRoundTrip ==
  (Settled /\ last.op = "back" /\ prev.op = "openCard")
  => /\ selected = prev.pre.selected
     /\ formOpen = prev.pre.formOpen
     /\ prev.emits = << "open" >>
     /\ emits = << "closed" >>

C7_Witness ==
  /\ Settled /\ last.op = "back" /\ prev.op = "openCard" /\ prev.arg = "SPLIT"
  /\ selected = NoCard /\ ~formOpen /\ forceTitle = "UPLOAD"

\* C8: when forceTitle becomes a key (a truthy value) that is the title of no
\* card, neither the render nor the effect changes selected or formOpen, the
\* grid calls onFormOpenChange not at all, and what it renders stays defined.
C8_Precondition ==
  /\ last.op = "select"
  /\ forceTitle = last.arg
  /\ Truthy(forceTitle)
  /\ forceTitle \notin CardTitles

C9_SignalIsLastSelect ==
  forceTitle = IF lastSel \in {"NONE", "HOME"} THEN NULL ELSE lastSel

C9_Witness ==
  /\ Settled /\ last.op = "back" /\ prev.op = "openCard"
  /\ forceTitle = "MERGE" /\ lastSel = "MERGE"
  /\ stale > 0

\* C10: the mounted form never has more than one request in flight, and
\* while it has one its loading flag is set.
C10_OneRequestInFlight ==
  /\ inflight <= 1
  /\ inflight > 0 => form.loading

C10_Witness ==
  /\ selected.title = "DOWNLOAD"
  /\ inflight = 1 /\ form.loading
  /\ stale = MaxPending - 1


\* C11: when the request of a form that is no longer displayed ends, the rest
\* of its handler does nothing: it calls no setter of the unmounted form and
\* acts on nothing else.
C11_LateResponseDiscarded ==
  lateCalls = << >>

\* A submit of the form on screen whose required inputs are not all present.
InvalidSubmit ==
  \/ UploadSubmit /\ form.file = NoFile
  \/ MergeSubmit /\ (form.file1 = NoFile \/ form.file2 = NoFile)
  \/ SplitSubmit /\ (form.file = NoFile \/ form.range = "")
  \/ DownloadSubmit /\ form.uuid = ""

\* The message each form shows for a missing input.
ValidationMessage ==
  CASE selected.title = "UPLOAD"   -> "Selecione um PDF"
    [] selected.title = "MERGE"    -> "Selecione os dois PDFs"
    [] selected.title = "SPLIT"    -> "Arquivo e intervalo obrigatórios"
    [] selected.title = "DOWNLOAD" -> "Informe o UUID"

\* C12: a submit with a required input missing shows the validation message of
\* its form, issues no request and leaves the loading flag false.
C12_InvalidSubmitIssuesNothing ==
  [][ InvalidSubmit
      => /\ form'.err = ValidationMessage
         /\ inflight' = inflight /\ stale' = stale
         /\ ~form.loading /\ ~form'.loading ]_vars

C12_Witness ==
  /\ selected.title = "SPLIT"
  /\ form.file # NoFile /\ form.range = ""
  /\ form.err = "Arquivo e intervalo obrigatórios"
  /\ ~form.loading /\ inflight = 0

\* The Upload, Merge or Split form is on screen.
ResultFormShown == selected.title \in {"UPLOAD", "MERGE", "SPLIT"}

\* C13: in the Upload, Merge and Split forms the uuid of a success and the
\* error message are never both shown; both are empty while a request is
\* pending; and when a request ends exactly one of the two is shown.
C13_ResultXorError ==
  /\ [](ResultFormShown => ~(form.uuid # "" /\ form.err # ""))
  /\ [](ResultFormShown /\ form.loading => form.uuid = "" /\ form.err = "")
  /\ [][ (ResultFormShown /\ selected' = selected /\ inflight' < inflight)
         => (form'.uuid # "") # (form'.err # "") ]_vars

C13_Witness ==
  /\ selected.title = "UPLOAD"
  /\ form.uuid = "" /\ form.err = "Erro no upload"
  /\ ~form.loading /\ form.file # NoFile

\* A validation error, or the failure of a request of the mounted form or of an
\* unmounted one.
FormFailure ==
  \/ InvalidSubmit
  \/ \E d \in Details : Reject(d)
  \/ \E dl \in BOOLEAN : StaleSettle(dl, "fail")

\* C14: a validation error or a failed request changes neither forceTitle nor
\* selected nor formOpen.
C14_FailureKeepsNavigation ==
  [][ FormFailure => UNCHANGED << forceTitle, selected, formOpen >> ]_vars

C14_Witness ==
  /\ selected.title = "MERGE" /\ formOpen /\ forceTitle = "MERGE"
  /\ form.err = "Erro ao mesclar" /\ ~form.loading


\* The required inputs of the form on screen are all present.
InputsPresent ==
  CASE selected.title = "UPLOAD"   -> form.file # NoFile
    [] selected.title = "MERGE"    -> form.file1 # NoFile /\ form.file2 # NoFile
    [] selected.title = "SPLIT"    -> form.file # NoFile /\ form.range # ""
    [] selected.title = "DOWNLOAD" -> form.uuid # ""
    [] OTHER                       -> FALSE

\* A submit of the form on screen.
SubmitShown == UploadSubmit \/ MergeSubmit \/ SplitSubmit \/ DownloadSubmit

\* C15: a loading flag that is set is cleared again, by the end of the request
\* or with the form; it is set only while a request of the form is pending;
\* and a form that shows an error, with its inputs present, accepts a submit
\* that issues a request (as long as the API is below MaxPending requests).
C15_RequestEndsAndFormRetries ==
  /\ form.loading ~> ~form.loading
  /\ [](form.loading => inflight > 0)
  /\ []( ( /\ Settled /\ selected # NoCard
           /\ form.err # "" /\ InputsPresent
           /\ inflight + stale < MaxPending )
         => ENABLED (SubmitShown /\ inflight' = inflight + 1) )

C15_Witness ==
  /\ selected.title = "DOWNLOAD"
  /\ form.err = "UUID não encontrado" /\ form.uuid # ""
  /\ ~form.loading /\ inflight = 0 /\ stale = 0


C17_FormInstancesIsolated ==
  [][ /\ ( /\ selected' # NoCard
           /\ (selected = NoCard \/ selected.title # selected'.title) )
         => (form' = InitForm /\ inflight' = 0)
      /\ (stale' < stale) => (form' = form /\ inflight' = inflight) ]_vars

C17_Witness ==
  /\ lateCalls # << >>
  /\ last.op = "openCard" /\ prev.op = "back"
  /\ prev.pre.selected.title = "UPLOAD"
  /\ selected.title = "UPLOAD"
  /\ form.loading /\ inflight = 1 /\ form.uuid = "" /\ form.err = ""

\* C18: selected is null or one of the four cards of the menu, whose title has
\* a form in formByTitle; it is never made from HOME or from an unknown key.
C18_SelectedIsMenuCard ==
  \/ selected = NoCard
  \/ /\ selected \in { menuCards[i] : i \in 1..Len(menuCards) }
     /\ selected.title \in {"DOWNLOAD", "UPLOAD", "MERGE", "SPLIT"}
     /\ selected.title \in formByTitle

C18_Witness ==
  /\ Settled
  /\ forceTitle = "OTHER" /\ last.pre.forceTitle = "SPLIT"
  /\ selected.title = "SPLIT" /\ form.loading

=============================================================================
